---- MODULE Spec2Model ----
(***************************************************************************)
(* The EmbeddingGemma inference service (embedding_server.py) and its      *)
(* launcher (start_server.py).                                             *)
(*                                                                         *)
(* SpecService  : the service process alone, started through __main__.     *)
(* SpecLauncher : the launcher with the service as its child process.      *)
(* FairLauncher : SpecLauncher with the progress the two processes make.   *)
(***************************************************************************)
EXTENDS Integers, Sequences, FiniteSets, TLC

VARIABLES
    serverState,    \* the service process: "none" (not spawned), "init", "serving", "exited"
    model,          \* embedding_server.py global `model`
    tokenizer,      \* embedding_server.py global `tokenizer`
    device,         \* embedding_server.py global `device`
    loadCalls,      \* number of load_model calls made so far
    loadResult,     \* what load_model returned: "pending", "ok", "failed"
    nArrived,       \* number of requests accepted by the event loop so far
    nDispatched,    \* number of requests whose handler has been started
    pending,        \* accepted requests whose handler has not started (kinds, FIFO)
    current,        \* the request whose handler is running, NoReq when the loop is idle
    embeddings,     \* get_embeddings' local list `embeddings`
    response,       \* the response sent by the handler that ran last
    answered,       \* the request `response` answers
    calls,          \* get_text_embedding calls made by the last get_embeddings run
    raisedAt,       \* for `answered`: position of the text whose call raised, 0 if none
    raisedText,     \* for `answered`: str(e) of the exception raised
    lpc,            \* the launcher's position in start_server / wait_for_server
    now,            \* time.time(), in seconds
    startTime,      \* wait_for_server's start_time
    pollStart,      \* the time the last GET /health poll was started
    pollStatus,     \* status of the last poll: 0 = RequestException, else the HTTP status
    waitResult,     \* wait_for_server's return value: "none", "True", "False"
    result,         \* start_server's outcome: "none", "True", "False", "KeyboardInterrupt"
    terminateCalls, \* number of process.terminate() calls
    termSignalled,  \* the child has been sent the termination signal
    otherAnswers    \* something that is not the child listens on localhost:8000

embedTrace   == <<calls, raisedAt, raisedText>>
serviceVars  == <<nArrived, nDispatched, pending, current, embeddings, response,
                  answered, embedTrace>>
globalVars   == <<model, tokenizer, device>>
loadVars     == <<loadCalls, loadResult>>
launcherVars == <<lpc, now, startTime, pollStart, pollStatus, waitResult, result,
                  terminateCalls, termSignalled, otherAnswers>>
vars == <<serverState, globalVars, loadVars, serviceVars, launcherVars>>

(***************************************************************************)
(* Bounds of the model.                                                    *)
(***************************************************************************)
MaxRequests == 2        \* requests accepted in one run of the service
MaxTexts == 3           \* longest `texts` list of a request
Dim == 2                \* dimensionality of the hidden state
Scale == 1000           \* floats are fixed-point numbers, in units of 1/Scale
NormTolerance == 5      \* "norm ~ 1.0": within NormTolerance/Scale of 1.0

Texts == {"a", "z"}
InferenceErrors == {"CUDA out of memory"}
NoneTypeError == "'NoneType' object is not callable"

MODEL_NAME == "google/embeddinggemma-300m"

(***************************************************************************)
(* Model Loader.                                                           *)
(***************************************************************************)
LoadStages == {"device", "tokenizer", "model", "to", "done"}

\* a load_model without `global device`: the chosen device stays local
load_model_local_device(failAt, cudaAvailable) ==
    [ device    |-> "None",
      tokenizer |-> IF failAt \in {"device", "tokenizer"} THEN "None"
                    ELSE "AutoTokenizer",
      model     |-> CASE failAt \in {"device", "tokenizer", "model"} -> "None"
                      [] failAt = "to"   -> "pretrained"
                      [] failAt = "done" -> "eval",
      success   |-> failAt = "done" ]

\* load_model, failing at stage failAt ("done": nothing raises).  The globals
\* assigned before the raising statement keep their new value.
load_model(failAt, cudaAvailable) ==
    LET dev == IF cudaAvailable THEN "cuda" ELSE "cpu" IN
    [ device    |-> IF failAt = "device" THEN "None" ELSE dev,
      tokenizer |-> IF failAt \in {"device", "tokenizer"} THEN "None"
                    ELSE "AutoTokenizer",
      model     |-> CASE failAt \in {"device", "tokenizer", "model"} -> "None"
                      [] failAt = "to"   -> "pretrained"
                      [] failAt = "done" -> "eval",
      success   |-> failAt = "done" ]

\* a startup_event that ignores load_model's return value
StartupOutcomeIgnoresFailure(success) == "serving"

\* startup_event raises when load_model did not succeed; the server then
\* abandons startup and the process exits without serving.
StartupOutcome(success) ==
    IF success THEN "serving" ELSE "exited"

startup_event ==
    /\ serverState = "init"
    /\ \E failAt \in LoadStages, cudaAvailable \in BOOLEAN :
          LET r == load_model(failAt, cudaAvailable) IN
          /\ device' = r.device
          /\ tokenizer' = r.tokenizer
          /\ model' = r.model
          /\ loadResult' = IF r.success THEN "ok" ELSE "failed"
          /\ serverState' = StartupOutcome(r.success)
    /\ loadCalls' = loadCalls + 1
    /\ UNCHANGED <<serviceVars, launcherVars>>

(***************************************************************************)
(* Embedding Function.                                                     *)
(***************************************************************************)
RECURSIVE SumSq(_)
SumSq(v) == IF v = <<>> THEN 0 ELSE Head(v) * Head(v) + SumSq(Tail(v))

Abs(x) == IF x < 0 THEN -x ELSE x

RECURSIVE SumAbs(_)
SumAbs(v) == IF v = <<>> THEN 0 ELSE Abs(Head(v)) + SumAbs(Tail(v))

RECURSIVE SqrtSearch(_, _, _)
SqrtSearch(n, lo, hi) ==
    IF lo >= hi THEN lo
    ELSE LET mid == (lo + hi + 1) \div 2 IN
         IF mid * mid <= n THEN SqrtSearch(n, mid, hi)
         ELSE SqrtSearch(n, lo, mid - 1)

\* np.linalg.norm: the Euclidean norm, in the vector's own fixed-point units
Norm(v) == SqrtSearch(SumSq(v), 0, SumAbs(v))

\* x / norm on fixed-point numbers, rounded towards zero
Quot(x, norm) ==
    IF x >= 0 THEN (x * Scale) \div norm ELSE -(((-x) * Scale) \div norm)

\* text = f"[{text}]"
Wrap(text) == "[" \o text \o "]"

\* outputs.last_hidden_state[:, 0, :] of the pretrained model for the wrapped
\* text, as a list: a fixed function of the text, all zeros for "[z]"
LastHiddenState(wrapped) ==
    LET slope  == IF wrapped = "[a]" THEN 3000 ELSE 0
        offset == IF wrapped = "[a]" THEN -4000 ELSE 0
    IN [i \in 1..Dim |-> slope * i + offset]

\* a normalisation that ignores the request's flag
NormaliseAlways(embedding, normalize) ==
    LET norm == Norm(embedding) IN
    IF norm > 0
    THEN [i \in 1..Len(embedding) |-> Quot(embedding[i], norm)]
    ELSE embedding

\* lines 94-97
Normalise(embedding, normalize) ==
    IF normalize
    THEN LET norm == Norm(embedding) IN
         IF norm > 0
         THEN [i \in 1..Len(embedding) |-> Quot(embedding[i], norm)]
         ELSE embedding
    ELSE embedding

get_text_embedding(text, normalize) ==
    Normalise(LastHiddenState(Wrap(text)), normalize)

\* the exceptions a get_text_embedding call can raise in the current state
EmbeddingRaises ==
    IF tokenizer = "None" \/ model = "None" THEN {NoneTypeError}
    ELSE InferenceErrors

\* a get_text_embedding that moves the model again on every call
EmbeddingFrameMovesModel ==
    /\ model' = "pretrained"
    /\ UNCHANGED <<tokenizer, device, loadVars>>

\* get_text_embedding assigns none of the globals
EmbeddingFrame == UNCHANGED <<globalVars, loadVars>>

(***************************************************************************)
(* HTTP Service.                                                           *)
(***************************************************************************)
Kinds == {"root", "health", "embed"}

NoReq == [id |-> 0, kind |-> "none", texts |-> <<>>, normalize |-> FALSE]

NoResp == [status |-> 0, embeddings |-> <<>>, model |-> "", detail |-> "",
           health |-> "", device |-> ""]

\* handlers that start while another handler is running
LoopNeverBusy == TRUE

\* workers=1 and handlers that never await: a handler starts only when no
\* other handler is running
LoopIdle == current = NoReq

\* a client's request is accepted by the server
Arrive(kind) ==
    /\ serverState = "serving"
    /\ nArrived < MaxRequests
    /\ nArrived' = nArrived + 1
    /\ pending' = Append(pending, kind)
    /\ UNCHANGED <<serverState, globalVars, loadVars, nDispatched, current,
                   embeddings, response, answered, embedTrace, launcherVars>>

Dispatchable(kind) ==
    /\ serverState = "serving"
    /\ LoopIdle
    /\ pending # <<>>
    /\ Head(pending) = kind

\* GET /
root ==
    /\ Dispatchable("root")
    /\ pending' = Tail(pending)
    /\ nDispatched' = nDispatched + 1
    /\ answered' = [NoReq EXCEPT !.id = nDispatched + 1, !.kind = "root"]
    /\ response' = [NoResp EXCEPT !.status = 200, !.model = MODEL_NAME]
    /\ UNCHANGED <<serverState, globalVars, loadVars, nArrived, current,
                   embeddings, embedTrace, launcherVars>>

\* HealthResponse(status="healthy", model=MODEL_NAME, device=device); the
\* field `device: str` rejects None, which surfaces as a server error
HealthResponse ==
    IF device = "None"
    THEN [NoResp EXCEPT !.status = 500, !.detail = "Internal Server Error"]
    ELSE [NoResp EXCEPT !.status = 200, !.health = "healthy",
                        !.model = MODEL_NAME, !.device = device]

\* GET /health
health_check ==
    /\ Dispatchable("health")
    /\ pending' = Tail(pending)
    /\ nDispatched' = nDispatched + 1
    /\ answered' = [NoReq EXCEPT !.id = nDispatched + 1, !.kind = "health"]
    /\ response' = HealthResponse
    /\ UNCHANGED <<serverState, globalVars, loadVars, nArrived, current,
                   embeddings, embedTrace, launcherVars>>

RECURSIVE SeqsUpTo(_, _)
SeqsUpTo(S, n) ==
    IF n = 0 THEN {<<>>}
    ELSE LET shorter == SeqsUpTo(S, n - 1) IN
         shorter \cup {Append(s, x) : s \in shorter, x \in S}

\* POST /embed, lines 118-125: the handler starts on the request body
get_embeddings_begin ==
    /\ Dispatchable("embed")
    /\ pending' = Tail(pending)
    /\ nDispatched' = nDispatched + 1
    /\ \E texts \in SeqsUpTo(Texts, MaxTexts), normalize \in BOOLEAN :
          current' = [id |-> nDispatched + 1, kind |-> "embed",
                      texts |-> texts, normalize |-> normalize]
    /\ embeddings' = <<>>
    /\ calls' = 0
    /\ UNCHANGED <<serverState, globalVars, loadVars, nArrived, response,
                   answered, raisedAt, raisedText, launcherVars>>

\* embeddings.insert(0, embedding)
PrependEmbedding(list, embedding) == <<embedding>> \o list

\* embeddings.append(embedding)
AppendEmbedding(list, embedding) == Append(list, embedding)

\* lines 126-128, one iteration whose get_text_embedding call returns
get_embeddings_step ==
    /\ current.kind = "embed"
    /\ Len(embeddings) < Len(current.texts)
    /\ tokenizer # "None" /\ model # "None"
    /\ embeddings' = AppendEmbedding(embeddings,
            get_text_embedding(current.texts[Len(embeddings) + 1],
                               current.normalize))
    /\ calls' = calls + 1
    /\ EmbeddingFrame
    /\ UNCHANGED <<serverState, nArrived, nDispatched, pending, current,
                   response, answered, raisedAt, raisedText, launcherVars>>

\* per-item error isolation: the vectors computed so far are returned
PartialResponse(e, partial) ==
    [NoResp EXCEPT !.status = 200, !.embeddings = partial, !.model = MODEL_NAME]

\* HTTPException(status_code=500, detail=f"Error generating embeddings: {str(e)}")
ErrorResponse(e, partial) ==
    [NoResp EXCEPT !.status = 500,
                   !.detail = "Error generating embeddings: " \o e]

\* lines 126-127 and 138-139, the iteration whose get_text_embedding call raises
get_embeddings_raise ==
    /\ current.kind = "embed"
    /\ Len(embeddings) < Len(current.texts)
    /\ \E e \in EmbeddingRaises :
          /\ response' = ErrorResponse(e, embeddings)
          /\ raisedText' = e
    /\ calls' = calls + 1
    /\ raisedAt' = calls + 1
    /\ answered' = current
    /\ current' = NoReq
    /\ embeddings' = <<>>
    /\ EmbeddingFrame
    /\ UNCHANGED <<serverState, nArrived, nDispatched, pending, launcherVars>>

\* lines 130-136, after the last iteration
get_embeddings_return ==
    /\ current.kind = "embed"
    /\ Len(embeddings) = Len(current.texts)
    /\ response' = [NoResp EXCEPT !.status = 200, !.embeddings = embeddings,
                                  !.model = MODEL_NAME]
    /\ answered' = current
    /\ current' = NoReq
    /\ embeddings' = <<>>
    /\ raisedAt' = 0
    /\ raisedText' = ""
    /\ UNCHANGED <<serverState, globalVars, loadVars, nArrived, nDispatched,
                   pending, calls, launcherVars>>

InitGlobals ==
    /\ model = "None"
    /\ tokenizer = "None"
    /\ device = "None"
    /\ loadCalls = 0
    /\ loadResult = "pending"

InitService ==
    /\ nArrived = 0
    /\ nDispatched = 0
    /\ pending = <<>>
    /\ current = NoReq
    /\ embeddings = <<>>
    /\ response = NoResp
    /\ answered = NoReq
    /\ calls = 0
    /\ raisedAt = 0
    /\ raisedText = ""

\* the launcher is not part of a run of the service alone
NoLauncher ==
    /\ lpc = "absent"
    /\ now = 0
    /\ startTime = 0
    /\ pollStart = 0
    /\ pollStatus = 0
    /\ waitResult = "none"
    /\ result = "none"
    /\ terminateCalls = 0
    /\ termSignalled = FALSE
    /\ otherAnswers = FALSE

\* python embedding_server.py
InitServiceProcess ==
    /\ serverState = "init"
    /\ InitGlobals
    /\ InitService
    /\ NoLauncher

NextService ==
    \/ startup_event
    \/ \E kind \in Kinds : Arrive(kind)
    \/ root
    \/ health_check
    \/ get_embeddings_begin
    \/ get_embeddings_step
    \/ get_embeddings_raise
    \/ get_embeddings_return

SpecService == InitServiceProcess /\ [][NextService]_vars

\* the service run on its own is the default specification
Spec == SpecService

(***************************************************************************)
(* Launcher.                                                               *)
(***************************************************************************)
DefaultTimeout == 300   \* wait_for_server(url, timeout=300)
SleepInterval == 2      \* time.sleep(2)
RequestTimeout == 5     \* requests.get(..., timeout=5)

\* check_dependencies, and on missing packages the prompt and
\* install_dependencies (start_server lines 67-73)
check_dependencies ==
    /\ lpc = "start"
    /\ \E missing \in BOOLEAN, answerYes \in BOOLEAN, installed \in BOOLEAN :
          IF ~missing \/ (answerYes /\ installed)
          THEN lpc' = "spawn" /\ result' = result
          ELSE lpc' = "done" /\ result' = "False"
    /\ UNCHANGED <<serverState, globalVars, loadVars, serviceVars, now,
                   startTime, pollStart, pollStatus, waitResult,
                   terminateCalls, termSignalled, otherAnswers>>

\* process = subprocess.Popen([sys.executable, "embedding_server.py"], ...)
Popen ==
    /\ lpc = "spawn"
    /\ serverState' = "init"
    /\ lpc' = "wait_enter"
    /\ UNCHANGED <<globalVars, loadVars, serviceVars, now, startTime,
                   pollStart, pollStatus, waitResult, result, terminateCalls,
                   termSignalled, otherAnswers>>

\* Popen raises (OSError): caught by `except Exception`, no child exists
PopenFails ==
    /\ lpc = "spawn"
    /\ lpc' = "done"
    /\ result' = "False"
    /\ UNCHANGED <<serverState, globalVars, loadVars, serviceVars, now,
                   startTime, pollStart, pollStatus, waitResult,
                   terminateCalls, termSignalled, otherAnswers>>

\* wait_for_server lines 46-47: start_time = time.time()
wait_for_server_enter ==
    /\ lpc = "wait_enter"
    /\ startTime' = now
    /\ lpc' = "loop"
    /\ UNCHANGED <<serverState, globalVars, loadVars, serviceVars, now,
                   pollStart, pollStatus, waitResult, result, terminateCalls,
                   termSignalled, otherAnswers>>

\* while time.time() - start_time < timeout
WithinTimeout(t, start, timeout) == t - start < timeout

\* line 49, the loop test holds: the next poll starts
wait_for_server_continue ==
    /\ lpc = "loop"
    /\ WithinTimeout(now, startTime, DefaultTimeout)
    /\ lpc' = "poll"
    /\ pollStart' = now
    /\ UNCHANGED <<serverState, globalVars, loadVars, serviceVars, now,
                   startTime, pollStatus, waitResult, result, terminateCalls,
                   termSignalled, otherAnswers>>

\* lines 49 and 61-62, the loop test fails: return False
wait_for_server_timeout ==
    /\ lpc = "loop"
    /\ ~WithinTimeout(now, startTime, DefaultTimeout)
    /\ waitResult' = "False"
    /\ lpc' = "failed"
    /\ UNCHANGED <<serverState, globalVars, loadVars, serviceVars, now,
                   startTime, pollStart, pollStatus, result, terminateCalls,
                   termSignalled, otherAnswers>>

\* what GET http://localhost:8000/health can give: 0 stands for a
\* requests.RequestException (connection refused, no answer within the
\* request timeout); the serving child answers as health_check does
PollOutcomes ==
    {0} \cup (IF serverState = "serving" THEN {HealthResponse.status} ELSE {})
        \cup (IF otherAnswers THEN {200, 404} ELSE {})

\* any HTTP response counts as ready
PollReadyAnyStatus(status) == status # 0

\* if response.status_code == 200
PollReady(status) == status = 200

\* lines 50-56: one poll
wait_for_server_poll ==
    /\ lpc = "poll"
    /\ \E took \in 0..RequestTimeout : now' = now + took
    /\ \E status \in PollOutcomes :
          /\ pollStatus' = status
          /\ IF PollReady(status)
             THEN lpc' = "ready" /\ waitResult' = "True"
             ELSE lpc' = "sleep" /\ waitResult' = waitResult
    /\ UNCHANGED <<serverState, globalVars, loadVars, serviceVars, startTime,
                   pollStart, result, terminateCalls, termSignalled,
                   otherAnswers>>

\* lines 58-59
wait_for_server_sleep ==
    /\ lpc = "sleep"
    /\ now' = now + SleepInterval
    /\ lpc' = "loop"
    /\ UNCHANGED <<serverState, globalVars, loadVars, serviceVars, startTime,
                   pollStart, pollStatus, waitResult, result, terminateCalls,
                   termSignalled, otherAnswers>>

\* the child is not signalled
process_terminate_missing == UNCHANGED <<terminateCalls, termSignalled>>

\* process.terminate()
process_terminate ==
    /\ terminateCalls' = terminateCalls + 1
    /\ termSignalled' = TRUE

\* start_server lines 101-104, after wait_for_server returned False
start_server_failed ==
    /\ lpc = "failed"
    /\ process_terminate
    /\ result' = "False"
    /\ lpc' = "done"
    /\ UNCHANGED <<serverState, globalVars, loadVars, serviceVars, now,
                   startTime, pollStart, pollStatus, waitResult, otherAnswers>>

\* lines 89-95 and 110: process.wait() returns once the child has exited
start_server_wait ==
    /\ lpc = "ready"
    /\ serverState = "exited"
    /\ result' = "True"
    /\ lpc' = "done"
    /\ UNCHANGED <<serverState, globalVars, loadVars, serviceVars, now,
                   startTime, pollStart, pollStatus, waitResult,
                   terminateCalls, termSignalled, otherAnswers>>

\* the positions of start_server at which `except KeyboardInterrupt` (line 96)
\* is in force: inside the inner try, lines 93-95
InterruptHandled == lpc = "ready"

\* KeyboardInterrupt during process.wait(): lines 96-98
start_server_interrupted ==
    /\ InterruptHandled
    /\ process_terminate
    /\ lpc' = "stopping"
    /\ UNCHANGED <<serverState, globalVars, loadVars, serviceVars, now,
                   startTime, pollStart, pollStatus, waitResult, result,
                   otherAnswers>>

\* lines 99-100 and 110: process.wait() after terminate
start_server_stopped ==
    /\ lpc = "stopping"
    /\ serverState = "exited"
    /\ result' = "True"
    /\ lpc' = "done"
    /\ UNCHANGED <<serverState, globalVars, loadVars, serviceVars, now,
                   startTime, pollStart, pollStatus, waitResult,
                   terminateCalls, termSignalled, otherAnswers>>

\* KeyboardInterrupt anywhere else: it is no Exception, so `except Exception`
\* (line 106) does not catch it and it leaves start_server
KeyboardInterrupt ==
    /\ lpc \notin {"absent", "done"}
    /\ ~InterruptHandled
    /\ result' = "KeyboardInterrupt"
    /\ lpc' = "done"
    /\ UNCHANGED <<serverState, globalVars, loadVars, serviceVars, now,
                   startTime, pollStart, pollStatus, waitResult,
                   terminateCalls, termSignalled, otherAnswers>>

\* the child process ends on the termination signal
ChildTerminated ==
    /\ termSignalled
    /\ serverState \in {"init", "serving"}
    /\ serverState' = "exited"
    /\ UNCHANGED <<globalVars, loadVars, serviceVars, launcherVars>>

\* python start_server.py
InitLauncher ==
    /\ serverState = "none"
    /\ InitGlobals
    /\ InitService
    /\ lpc = "start"
    /\ now = 0
    /\ startTime = 0
    /\ pollStart = 0
    /\ pollStatus = 0
    /\ waitResult = "none"
    /\ result = "none"
    /\ terminateCalls = 0
    /\ termSignalled = FALSE
    /\ otherAnswers \in BOOLEAN

LauncherStep ==
    \/ check_dependencies
    \/ Popen
    \/ PopenFails
    \/ wait_for_server_enter
    \/ wait_for_server_continue
    \/ wait_for_server_timeout
    \/ wait_for_server_poll
    \/ wait_for_server_sleep
    \/ start_server_failed
    \/ start_server_wait
    \/ start_server_stopped

ChildStep ==
    \/ startup_event
    \/ ChildTerminated

NextLauncher ==
    \/ LauncherStep
    \/ ChildStep
    \/ start_server_interrupted
    \/ KeyboardInterrupt

SpecLauncher == InitLauncher /\ [][NextLauncher]_vars

\* both processes are scheduled and keep running; an interrupt may or may not come
FairLauncher ==
    SpecLauncher /\ WF_vars(LauncherStep) /\ WF_vars(ChildStep)

(***************************************************************************)
(* Properties of the service (SpecService).                                *)
(***************************************************************************)
EmbedAnswered == answered.kind = "embed"

\* C1: a POST /embed request with N >= 0 texts whose get_text_embedding calls
\* all succeed is answered with HTTP 200 and exactly N vectors, the vector at
\* position i being get_text_embedding(texts[i], normalize); an empty texts
\* list gives an empty embeddings list and no error.
C1_OneVectorPerTextInOrder ==
    (EmbedAnswered /\ raisedAt = 0) =>
        /\ response.status = 200
        /\ response.model = MODEL_NAME
        /\ Len(response.embeddings) = Len(answered.texts)
        /\ \A i \in 1..Len(answered.texts) :
              response.embeddings[i] =
                  get_text_embedding(answered.texts[i], answered.normalize)
        /\ (answered.texts = <<>> => response.embeddings = <<>>)

C1_Witness ==
    /\ EmbedAnswered
    /\ raisedAt = 0
    /\ Len(answered.texts) = 2
    /\ answered.texts[1] # answered.texts[2]
    /\ response.status = 200

\* C2: when load_model fails at startup, whichever statement raised, the
\* startup event raises and the service never accepts a request: the process
\* has exited, no request was accepted and no POST /embed was answered 200.
C2_NoServiceWithoutModel ==
    loadResult = "failed" =>
        /\ serverState = "exited"
        /\ nArrived = 0
        /\ ~(EmbedAnswered /\ response.status = 200)

C2_Witness ==
    /\ loadResult = "failed"
    /\ serverState = "exited"
    /\ device # "None"
    /\ model = "pretrained"

\* C3: when get_text_embedding raises for the text at position k, the batch
\* is aborted: no text after position k is processed, the response is HTTP 500
\* with detail 'Error generating embeddings: ' followed by the exception text,
\* and none of the vectors computed before position k is returned.
C3_BatchAbortedOnException ==
    (EmbedAnswered /\ raisedAt > 0) =>
        /\ response.status = 500
        /\ response.detail = "Error generating embeddings: " \o raisedText
        /\ response.embeddings = <<>>
        /\ (current = NoReq => calls = raisedAt /\ embeddings = <<>>)

C3_Witness ==
    /\ EmbedAnswered
    /\ raisedAt = 2
    /\ Len(answered.texts) = 3
    /\ response.status = 500

\* C6: once the service has started successfully, every GET /health is
\* answered HTTP 200 with status 'healthy', the configured model name and the
\* device chosen at load time, whatever requests preceded it.
C6_HealthAlwaysHealthy ==
    answered.kind = "health" =>
        /\ response.status = 200
        /\ response.health = "healthy"
        /\ response.model = "google/embeddinggemma-300m"
        /\ response.device \in {"cuda", "cpu"}
        /\ response.device = device

C6_Witness ==
    /\ answered.kind = "health"
    /\ answered.id > 1
    /\ raisedAt > 0
    /\ response.status = 200

\* what C7 says of one returned vector `out` for the raw hidden state `raw`
NormalisedAsClaimed(raw, out, normalize) ==
    IF normalize /\ SumSq(raw) > 0
    THEN /\ Len(out) = Len(raw)
         /\ \A j \in 1..Len(raw) :
               Abs(out[j] * Norm(raw) - raw[j] * Scale) < Norm(raw)
         /\ Abs(Norm(out) - Scale) <= NormTolerance
    ELSE out = raw

\* C7: with normalize true and a raw hidden-state vector of non-zero norm the
\* returned vector is the raw vector divided component-wise by its norm, so
\* its norm is about 1.0; with normalize true and an all-zero raw vector, and
\* with normalize false, the returned vector is the raw vector unchanged.
C7_NormalisationCases ==
    (EmbedAnswered /\ response.status = 200) =>
        \A i \in 1..Len(response.embeddings) :
            NormalisedAsClaimed(LastHiddenState(Wrap(answered.texts[i])),
                                response.embeddings[i], answered.normalize)

C7_Witness ==
    /\ EmbedAnswered
    /\ response.status = 200
    /\ answered.normalize
    /\ answered.texts = <<"a", "z">>
    /\ response.embeddings[2] = LastHiddenState("[z]")
    /\ response.embeddings[1] # LastHiddenState("[a]")

\* C8: model, tokenizer and device are assigned by exactly one load_model call
\* at startup; no GET /, GET /health or POST /embed request, successful or
\* failed, changes any of them, and load_model is not called again.
C8_GlobalsSetOnceAtStartup ==
    /\ [](serverState = "serving" =>
             loadCalls = 1 /\ model = "eval" /\ tokenizer = "AutoTokenizer"
                           /\ device \in {"cuda", "cpu"})
    /\ [][serverState # "init" =>
             /\ model' = model
             /\ tokenizer' = tokenizer
             /\ device' = device
             /\ loadCalls' = loadCalls]_vars

C8_Witness ==
    /\ serverState = "serving"
    /\ nDispatched = MaxRequests
    /\ raisedAt > 0
    /\ current = NoReq
    /\ model = "eval"

InBatch == current.kind = "embed"

\* C9: a POST /embed handler runs its whole batch without yielding: from its
\* start to its response no other handler starts or answers (a /health request
\* that arrived meanwhile stays pending), and the list it builds holds only
\* vectors of its own request's texts.
C9_BatchRunsAlone ==
    /\ [](InBatch =>
             /\ Len(embeddings) <= Len(current.texts)
             /\ \A i \in 1..Len(embeddings) :
                   embeddings[i] =
                       get_text_embedding(current.texts[i], current.normalize))
    /\ [][InBatch =>
             /\ nDispatched' = nDispatched
             /\ current' \in {current, NoReq}
             /\ \/ response' = response /\ answered' = answered
                \/ answered' = current /\ current' = NoReq]_vars

C9_Witness ==
    /\ InBatch
    /\ Len(embeddings) = 1
    /\ Len(current.texts) = 2
    /\ pending # <<>>
    /\ Head(pending) = "health"

(***************************************************************************)
(* Properties of the launcher (SpecLauncher, FairLauncher).                *)
(***************************************************************************)
Spawned == serverState # "none"

\* C4: a Launcher interrupted (KeyboardInterrupt) at any point after it has
\* spawned the child, while polling the health endpoint or while waiting on
\* the ready child, terminates the child and waits for it to exit: once the
\* Launcher has stopped the child is not left running.
C4_InterruptTerminatesChild ==
    (lpc = "done" /\ Spawned /\ result = "KeyboardInterrupt") =>
        /\ terminateCalls > 0
        /\ serverState = "exited"

\* the interrupt that start_server does handle: during process.wait()
C4_HandledWhenReady ==
    (lpc = "done" /\ result = "True" /\ terminateCalls > 0) =>
        serverState = "exited"

WaitReturned == waitResult # "none"

\* C5: wait_for_server returns True only if a GET /health poll returned 200,
\* a poll started less than timeout (300) seconds after the wait began; a
\* non-200 response or a request exception is followed by a 2-second sleep
\* before the next poll; it returns False only once at least timeout seconds
\* have elapsed without a poll returning 200; and it always returns (unless a
\* KeyboardInterrupt ends the launcher first).
C5_WaitForServer ==
    /\ [](waitResult = "True" =>
             pollStatus = 200 /\ pollStart - startTime < 300)
    /\ [](waitResult = "False" =>
             now - startTime >= 300 /\ pollStatus # 200)
    /\ [][(lpc = "poll" /\ lpc' \notin {"poll", "done"}) =>
             \/ pollStatus' = 200 /\ lpc' = "ready"
             \/ pollStatus' # 200 /\ lpc' = "sleep" /\ waitResult' = "none"]_vars
    /\ [][(lpc = "sleep" /\ lpc' \notin {"sleep", "done"}) =>
             lpc' = "loop" /\ now' = now + 2]_vars
    /\ [][lpc' = "poll" => pollStart' - startTime' < 300]_vars
    /\ (lpc = "wait_enter" ~> (WaitReturned \/ result = "KeyboardInterrupt"))

C5_Witness ==
    /\ waitResult = "True"
    /\ pollStatus = 200
    /\ pollStart - startTime = DefaultTimeout - 1
    /\ now - startTime > DefaultTimeout

ChildFailedAlone == loadResult = "failed" /\ ~otherAnswers

\* C10: when the spawned child fails to load the model and nothing else
\* answers on localhost:8000, start_server never finds the server ready and
\* never returns True; it keeps polling although the child has exited, until
\* the timeout has elapsed, then calls terminate on the child and returns
\* False (unless a KeyboardInterrupt ends the launcher first).
C10_FailedChildTimesOut ==
    /\ [](ChildFailedAlone =>
             /\ serverState = "exited"
             /\ waitResult # "True"
             /\ result # "True"
             /\ lpc \notin {"ready", "stopping"})
    /\ [](ChildFailedAlone /\ result = "False" =>
             /\ now - startTime >= 300
             /\ waitResult = "False"
             /\ terminateCalls = 1)
    /\ [][(ChildFailedAlone /\ lpc = "loop" /\ now - startTime < 300) =>
             lpc' \in {"loop", "poll", "done"} /\ (lpc' = "done" =>
                                                   result' = "KeyboardInterrupt")]_vars
    /\ (ChildFailedAlone ~> (result = "False" \/ result = "KeyboardInterrupt"))

C10_Witness ==
    /\ ChildFailedAlone
    /\ result = "False"
    /\ terminateCalls = 1
    /\ lpc = "done"

====
